---- MODULE Spec2Model ----
(***************************************************************************)
(* The incremental statistics calculators of                               *)
(* thalesians/adiutor/stats/calculators.py as a state machine.             *)
(*                                                                         *)
(* Numbers.  A Python/numpy float is modelled exactly: not-a-number, the   *)
(* two infinities, a rational n/d in lowest terms, or (for the results of  *)
(* np.sqrt, np.log and np.exp that are not rational) a symbolic term kept  *)
(* as the prefix code of the expression that produced it.  Rounding is not *)
(* modelled.  Observations are Python floats, as in the tests, so a        *)
(* Python-level division by zero raises ZeroDivisionError, while a         *)
(* division whose dividend is a numpy scalar yields inf or nan.            *)
(***************************************************************************)
EXTENDS Integers, Sequences, FiniteSets, TLC

(***************************************************************************)
(* Floating-point values                                                   *)
(***************************************************************************)
NaN == [k |-> "nan", n |-> 0, d |-> 1, e |-> <<>>]

Inf(sign) == [k |-> "inf", n |-> sign, d |-> 0, e |-> <<>>]

Sym(code) == [k |-> "sym", n |-> 0, d |-> 1, e |-> code]

AbsInt(i) == IF i < 0 THEN -i ELSE i

RECURSIVE GCD(_, _)
GCD(a, b) == IF b = 0 THEN a ELSE GCD(b, a % b)

\* The rational n/d (d # 0) in lowest terms with a positive denominator.
Num(n, d) ==
  LET g == GCD(AbsInt(n), AbsInt(d))
      sg == IF d < 0 THEN -1 ELSE 1
  IN [k |-> "num", n |-> (sg * n) \div g, d |-> (sg * d) \div g, e |-> <<>>]

Zero == Num(0, 1)

One == Num(1, 1)

IsNaN(v) == v.k = "nan"

IsFinite(v) == v.k \in {"num", "sym"}

IsZero(v) == v.k = "num" /\ v.n = 0

\* -1, 0 or 1 for a rational or an infinity.
Sign(v) == IF v.n > 0 THEN 1 ELSE IF v.n < 0 THEN -1 ELSE 0

\* The prefix code of a finite value inside a symbolic term.
Enc(v) == IF v.k = "sym" THEN v.e ELSE <<0, v.n, v.d>>

\* The operator codes of symbolic terms.
Op(name) ==
  CASE name = "add" -> 1
    [] name = "sub" -> 2
    [] name = "mul" -> 3
    [] name = "div" -> 4
    [] name = "pow" -> 5
    [] name = "sqrt" -> 6
    [] name = "log" -> 7
    [] name = "exp" -> 8
    [] name = "abs" -> 9
    [] name = "cis" -> 10

\* Sums, products and quotients of rationals, cancelling common factors
\* before multiplying: l is the least common denominator, g and h the common
\* factors of the terms that end up on opposite sides of the fraction.
AddOver(a, b, l) == Num(a.n * (l \div a.d) + b.n * (l \div b.d), l)

SubOver(a, b, l) == Num(a.n * (l \div a.d) - b.n * (l \div b.d), l)

MulBy(a, b, g, h) == Num((a.n \div g) * (b.n \div h), (a.d \div h) * (b.d \div g))

DivBy(a, b, g, h) == Num((a.n \div g) * (b.d \div h), (a.d \div h) * (b.n \div g))

Lcm(c, d) == (c \div GCD(c, d)) * d

Neg(v) ==
  CASE v.k = "nan" -> NaN
    [] v.k = "inf" -> Inf(-v.n)
    [] v.k = "num" -> Num(-v.n, v.d)
    [] OTHER -> Sym(<<Op("sub")>> \o Enc(Zero) \o v.e)

Add(a, b) ==
  CASE a.k = "nan" \/ b.k = "nan" -> NaN
    [] a.k = "inf" /\ b.k = "inf" -> IF a.n = b.n THEN a ELSE NaN
    [] a.k = "inf" -> a
    [] b.k = "inf" -> b
    [] a.k = "num" /\ b.k = "num" -> AddOver(a, b, Lcm(a.d, b.d))
    [] OTHER -> Sym(<<Op("add")>> \o Enc(a) \o Enc(b))

Sub(a, b) ==
  CASE a.k = "nan" \/ b.k = "nan" -> NaN
    [] a.k = "inf" /\ b.k = "inf" -> IF a.n = b.n THEN NaN ELSE a
    [] a.k = "inf" -> a
    [] b.k = "inf" -> Inf(-b.n)
    [] a.k = "num" /\ b.k = "num" -> SubOver(a, b, Lcm(a.d, b.d))
    [] OTHER -> Sym(<<Op("sub")>> \o Enc(a) \o Enc(b))

\* The sign of a symbolic term is not tracked: an infinity times a symbolic
\* term is left undetermined (nan); no modelled composition computes it.
Mul(a, b) ==
  CASE a.k = "nan" \/ b.k = "nan" -> NaN
    [] a.k = "sym" /\ b.k = "inf" -> NaN
    [] a.k = "inf" /\ b.k = "sym" -> NaN
    [] a.k = "inf" \/ b.k = "inf" ->
         IF Sign(a) * Sign(b) = 0 THEN NaN ELSE Inf(Sign(a) * Sign(b))
    [] a.k = "num" /\ b.k = "num" ->
         MulBy(a, b, GCD(AbsInt(a.n), b.d), GCD(AbsInt(b.n), a.d))
    [] IsZero(a) \/ IsZero(b) -> Zero
    [] OTHER -> Sym(<<Op("mul")>> \o Enc(a) \o Enc(b))

\* numpy's true division: x / 0 is inf or nan, never an exception.
Div(a, b) ==
  CASE a.k = "nan" \/ b.k = "nan" -> NaN
    [] a.k = "inf" /\ b.k = "inf" -> NaN
    [] b.k = "inf" -> Zero
    [] IsZero(b) -> IF a.k = "sym" \/ Sign(a) = 0 THEN NaN ELSE Inf(Sign(a))
    [] a.k = "inf" -> IF b.k = "sym" THEN NaN ELSE Inf(Sign(a) * Sign(b))
    [] a.k = "num" /\ b.k = "num" ->
         DivBy(a, b, GCD(AbsInt(a.n), AbsInt(b.n)), GCD(a.d, b.d))
    [] OTHER -> Sym(<<Op("div")>> \o Enc(a) \o Enc(b))

RECURSIVE IntPow(_, _)
IntPow(b, p) == IF p = 0 THEN 1 ELSE b * IntPow(b, p - 1)

\* np.power(v, p) for an integer order p >= 1.
Pow(v, p) ==
  CASE v.k = "nan" -> NaN
    [] v.k = "inf" -> IF v.n < 0 /\ p % 2 = 1 THEN Inf(-1) ELSE Inf(1)
    [] v.k = "num" -> Num(IntPow(v.n, p), IntPow(v.d, p))
    [] OTHER -> IF p = 1 THEN v ELSE Sym(<<Op("pow")>> \o v.e \o Enc(Num(p, 1)))

Abs(v) ==
  CASE v.k = "nan" -> NaN
    [] v.k = "inf" -> Inf(1)
    [] v.k = "num" -> Num(AbsInt(v.n), v.d)
    [] OTHER -> Sym(<<Op("abs")>> \o v.e)

\* np.minimum(v, 0.) of a rational, an infinity or nan.
Minimum0(v) ==
  CASE v.k = "nan" -> NaN
    [] v.k = "inf" -> IF v.n < 0 THEN v ELSE Zero
    [] OTHER -> IF v.n < 0 THEN v ELSE Zero

RECURSIVE ISqrtFrom(_, _)
ISqrtFrom(i, r) == IF (r + 1) * (r + 1) > i THEN r ELSE ISqrtFrom(i, r + 1)

ISqrt(i) == ISqrtFrom(i, 0)

IsSquare(i) == ISqrt(i) * ISqrt(i) = i

\* np.sqrt: nan for a negative argument, exact for a rational square,
\* otherwise the symbolic term sqrt(v).
Sqrt(v) ==
  CASE v.k = "nan" -> NaN
    [] v.k = "inf" -> IF v.n > 0 THEN v ELSE NaN
    [] v.k = "num" ->
         IF v.n < 0 THEN NaN
         ELSE IF IsSquare(v.n) /\ IsSquare(v.d) THEN Num(ISqrt(v.n), ISqrt(v.d))
         ELSE Sym(<<Op("sqrt")>> \o Enc(v))
    [] OTHER -> Sym(<<Op("sqrt")>> \o v.e)

\* np.log of a non-negative value: log(0) = -inf, log(1) = 0.
Log(v) ==
  CASE v.k = "nan" -> NaN
    [] v.k = "inf" -> IF v.n > 0 THEN v ELSE NaN
    [] v.k = "num" ->
         IF v.n < 0 THEN NaN
         ELSE IF v.n = 0 THEN Inf(-1)
         ELSE IF v.n = v.d THEN Zero
         ELSE Sym(<<Op("log")>> \o Enc(v))
    [] OTHER -> Sym(<<Op("log")>> \o v.e)

\* np.exp: exp(-inf) = 0, exp(0) = 1, exp(log(q)) = q.
Exp(v) ==
  CASE v.k = "nan" -> NaN
    [] v.k = "inf" -> IF v.n > 0 THEN v ELSE Zero
    [] v.k = "num" -> IF v.n = 0 THEN One ELSE Sym(<<Op("exp")>> \o Enc(v))
    [] OTHER ->
         IF Len(v.e) = 4 /\ v.e[1] = Op("log") /\ v.e[2] = 0
         THEN Num(v.e[3], v.e[4])
         ELSE Sym(<<Op("exp")>> \o v.e)

\* x < 0. and a > b on rationals and infinities (false when either is nan).
Lt0(v) == v.k \in {"num", "inf"} /\ v.n < 0

Gt(a, b) == LET diff == Sub(a, b) IN diff.k \in {"num", "inf"} /\ diff.n > 0

(***************************************************************************)
(* Call results: the object after the call (as far as the call got) and    *)
(* the exception it raised, if any; a returned value and the exception.    *)
(***************************************************************************)
Ok(s) == [s |-> s, raised |-> "none"]

Raise(s, exc) == [s |-> s, raised |-> exc]

Val(v) == [v |-> v, raised |-> "none"]

RaiseVal(exc) == [v |-> NaN, raised |-> exc]

\* Python's None, as a calculator argument and as an observation argument.
None == [kind |-> "None", k |-> "None"]

\* The pair (a, b) passed as one observation.
Pair(a, b) == [k |-> "pair", a |-> a, b |-> b]

(***************************************************************************)
(* Constructors: the object __init__ leaves behind.                        *)
(***************************************************************************)
ArithmeticMeanIncrementalCalculator ==
  [kind |-> "ArithmeticMean", count |-> 0, statistic |-> NaN]

MomentIncrementalCalculator(n) ==
  [kind |-> "Moment", count |-> 0, statistic |-> NaN, n |-> n]

GeometricMeanIncrementalCalculator(return_radius) ==
  [kind |-> "GeometricMean", count |-> 0, statistic |-> NaN,
   count_of_negatives |-> 0, return_radius |-> return_radius]

HarmonicMeanIncrementalCalculator ==
  [kind |-> "HarmonicMean", count |-> 0, statistic |-> NaN,
   ac |-> ArithmeticMeanIncrementalCalculator]

AverageAbsoluteDeviationIncrementalCalculator ==
  [kind |-> "AverageAbsoluteDeviation", count |-> 0, statistic |-> NaN,
   inner_average_calculator |-> ArithmeticMeanIncrementalCalculator,
   outer_average_calculator |-> ArithmeticMeanIncrementalCalculator]

\* numpy tells whether the accumulator is a numpy scalar rather than a
\* Python float.
VarianceIncrementalCalculator(ddof, semi) ==
  [kind |-> "Variance", count |-> 0, statistic |-> NaN, numpy |-> FALSE,
   average_calculator |-> ArithmeticMeanIncrementalCalculator,
   ddof |-> ddof, semi |-> semi]

\* The default inner variance calculator has ddof = 1.5.
StandardDeviationIncrementalCalculator ==
  [kind |-> "StandardDeviation", count |-> 0, statistic |-> NaN,
   variance_calculator |-> VarianceIncrementalCalculator(Num(3, 2), FALSE)]

CovarianceIncrementalCalculator(ddof) ==
  [kind |-> "Covariance", count |-> 0, statistic |-> NaN,
   average_calculator1 |-> ArithmeticMeanIncrementalCalculator,
   average_calculator2 |-> ArithmeticMeanIncrementalCalculator,
   ddof |-> ddof]

CentralMomentIncrementalCalculator(n) ==
  [kind |-> "CentralMoment", count |-> 0, statistic |-> NaN, n |-> n,
   inner_average_calculator |-> ArithmeticMeanIncrementalCalculator,
   outer_average_calculator |-> ArithmeticMeanIncrementalCalculator]

StandardizedMomentIncrementalCalculator(n) ==
  [kind |-> "StandardizedMoment", count |-> 0, statistic |-> NaN, n |-> n,
   inner_average_calculator |-> ArithmeticMeanIncrementalCalculator,
   inner_standard_deviation_calculator |-> StandardDeviationIncrementalCalculator,
   outer_average_calculator |-> ArithmeticMeanIncrementalCalculator]

ControlVariateIncrementalCalculator(calculator, control_variate_calculator) ==
  [kind |-> "ControlVariate", count |-> 0, statistic |-> NaN,
   calculator |-> calculator,
   control_variate_calculator |-> control_variate_calculator,
   control_variate_mean_calculator |-> ArithmeticMeanIncrementalCalculator,
   control_variate_variance_calculator |-> VarianceIncrementalCalculator(One, FALSE),
   covariance_calculator |-> CovarianceIncrementalCalculator(One)]

\* window_size is <<>> for None and <<k>> for the size k; function is "None"
\* or the name of the batch function.
WindowCalculator(calculator, function, window_size) ==
  [kind |-> "Window", count |-> 0, statistic |-> NaN,
   calculator |-> calculator, function |-> function,
   window_size |-> window_size, window |-> <<>>]

\* A faulty variant of the constructor call that follows it.
\* Construction without the assertion.
WindowCalculator_unchecked(calculator, function, window_size) ==
  Ok(WindowCalculator(calculator, function, window_size))

\* The call WindowCalculator(calculator, function, window_size), with
\* assertions enabled as they are unless the interpreter runs with -O:
\* assert (calculator is not None) or (function is not None)
WindowCalculator_init(calculator, function, window_size) ==
  IF calculator = None /\ function = "None" THEN Raise(None, "AssertionError")
  ELSE Ok(WindowCalculator(calculator, function, window_size))

(***************************************************************************)
(* The changepoint detector is an external collaborator (changepoint_online*)
(* MDFocus): it is fed every observation and exposes a surprise statistic. *)
(* It is modelled by the observations it has been fed and the Gaussian     *)
(* change-in-mean likelihood-ratio statistic over them.  The observations  *)
(* are nested state of the detector object: in_place tells whether update  *)
(* mutates that nested state where it is (as a running sum kept in a       *)
(* member object is) or rebinds the attribute to a new value.              *)
(***************************************************************************)
ChangepointDetector(in_place) ==
  [kind |-> "Detector", in_place |-> in_place, ys |-> <<>>, statistic |-> Zero]

RECURSIVE SumSeq(_)
SumSeq(ys) == IF ys = <<>> THEN Zero ELSE Add(Head(ys), SumSeq(Tail(ys)))

MaxOf(S) == CHOOSE v \in S : \A w \in S : ~Gt(w, v)

\* The largest of the statistics of the candidate changepoints: the first j
\* observations against the others.
Detector_maximum(ys) ==
  LET n == Len(ys)
      split(j) ==
        LET left == SumSeq(SubSeq(ys, 1, j))
            right == SumSeq(SubSeq(ys, j + 1, n))
        IN Mul(Num(j * (n - j), n),
               Pow(Sub(Div(left, Num(j, 1)), Div(right, Num(n - j, 1))), 2))
  IN IF n < 2 THEN Zero ELSE MaxOf({split(j) : j \in 1..(n - 1)})

\* update(y) takes the observation in and works the statistic out.
Detector_observe(det, ys) ==
  [det EXCEPT !.ys = ys, !.statistic = Detector_maximum(ys)]

Detector_update(det, y) == Detector_observe(det, Append(det.ys, y))

Detector_statistic(det) == det.statistic

\* copy.copy(changepoint_detector): a shallow copy, a new object whose
\* attributes refer to the same nested state as those of det.
Detector_copy(det) == det

\* What a shallow copy of the detector holds once the detector itself has
\* become det by an update: the update shows through the shared nested state
\* when it was made in place.
Detector_shared(copied, det) == IF det.in_place THEN det ELSE copied

\* The number of observations that must have elapsed since the last
\* auto-reset before the next one.
MinAutoResetGap == 10

\* last_auto_reset_count is <<>> for None and <<c>> for the count c.
AutoResettingIncrementalCalculator(calculator, changepoint_detector, threshold) ==
  [kind |-> "AutoResetting", count |-> 0, statistic |-> NaN,
   calculator |-> calculator,
   changepoint_detector_clone |-> Detector_copy(changepoint_detector),
   changepoint_detector |-> Detector_copy(Detector_copy(changepoint_detector)),
   threshold |-> threshold, last_auto_reset_count |-> <<>>]

(***************************************************************************)
(* Methods.  append, extend, reset and get_statistic dispatch on the class *)
(* of the object, as Python's method lookup does.  Calculators are built   *)
(* with their default collaborators, so a call on an owned average,        *)
(* variance or standard deviation calculator is written as the method it   *)
(* resolves to.  The dispatch is layered by nesting: inner_* serve the     *)
(* calculators a control-variate calculator owns, wrapped_* those a window *)
(* or auto-resetting calculator wraps, and append, extend, reset and       *)
(* get_statistic every calculator.  A method that makes several calls is   *)
(* written as a chain of operators, one per call, each taking the result   *)
(* of the call before it.                                                  *)
(***************************************************************************)
get_count(s) == s.count

\* self._statistic if np.isfinite(self._statistic) else x
FiniteOr(st, x) == IF IsFinite(st) THEN st ELSE x

\* The owner after a call on the calculator it wraps: the call's exception
\* propagates.
SetCalculator(s, r) == [s |-> [s EXCEPT !.calculator = r.s], raised |-> r.raised]

\* AbstractCalculator.reset
AbstractCalculator_reset(s) == Ok([s EXCEPT !.count = 0, !.statistic = NaN])

\* AbstractCalculator.get_statistic
AbstractCalculator_get_statistic(s) == Val(s.statistic)

\* A faulty variant of the update that follows it.
\* The update without the weight 1 / (count + 1).
ArithmeticMean_append_unweighted(s, x) ==
  Ok([s EXCEPT !.statistic = FiniteOr(Add(s.statistic, Sub(x, s.statistic)), x),
               !.count = s.count + 1])

ArithmeticMean_append(s, x) ==
  Ok([s EXCEPT
        !.statistic =
          FiniteOr(Add(s.statistic, Mul(Num(1, s.count + 1), Sub(x, s.statistic))), x),
        !.count = s.count + 1])

Moment_append(s, x) ==
  Ok([s EXCEPT
        !.statistic =
          FiniteOr(Add(s.statistic,
                       Mul(Num(1, s.count + 1), Sub(Pow(x, s.n), s.statistic))), x),
        !.count = s.count + 1])

GeometricMean_append(s, x) ==
  Ok([s EXCEPT
        !.statistic =
          IF IsNaN(s.statistic) THEN Log(Abs(x))
          ELSE Add(s.statistic,
                   Mul(Num(1, s.count + 1), Sub(Log(Abs(x)), s.statistic))),
        !.count = s.count + 1,
        !.count_of_negatives = IF Lt0(x) THEN @ + 1 ELSE @])

\* (-1+0j)**count_of_negatives is 1 or -1; its principal 1/count-th power is
\* 1, -1 (count = 1) or the unit complex number cis(pi/count), and the
\* statistic is that times radius = exp(_statistic).
GeometricMean_polar(s, radius) ==
  IF s.return_radius \/ s.count_of_negatives % 2 = 0 THEN Abs(radius)
  ELSE IF s.count = 1 THEN Neg(radius)
  ELSE IF ~IsFinite(radius) THEN NaN
  ELSE IF IsZero(radius) THEN Zero
  ELSE Sym(<<Op("cis")>> \o Enc(Num(1, s.count)) \o Enc(radius))

\* 1. / self._count raises when no observation has been appended.
GeometricMean_get_statistic(s) ==
  IF s.count = 0 THEN RaiseVal("ZeroDivisionError")
  ELSE Val(GeometricMean_polar(s, Exp(s.statistic)))

GeometricMean_reset(s) ==
  Ok([s EXCEPT !.count = 0, !.statistic = NaN, !.count_of_negatives = 0])

\* 1. / x on a Python float raises for x = 0; _count is not touched.
HarmonicMean_append(s, x) ==
  IF IsZero(x) THEN Raise(s, "ZeroDivisionError")
  ELSE Ok([s EXCEPT !.ac = ArithmeticMean_append(@, Div(One, x)).s])

\* 1. / m on a Python float m.
HarmonicMean_invert(m) ==
  IF IsZero(m) THEN RaiseVal("ZeroDivisionError") ELSE Val(Div(One, m))

HarmonicMean_get_statistic(s) ==
  HarmonicMean_invert(AbstractCalculator_get_statistic(s.ac).v)

HarmonicMean_reset(s) ==
  Ok([s EXCEPT !.count = 0, !.statistic = NaN, !.ac = AbstractCalculator_reset(@).s])

AverageAbsoluteDeviation_outer(s, x, inner) ==
  Ok([s EXCEPT
        !.inner_average_calculator = inner,
        !.outer_average_calculator =
          ArithmeticMean_append(
            @, Abs(Sub(x, AbstractCalculator_get_statistic(inner).v))).s,
        !.count = s.count + 1])

AverageAbsoluteDeviation_append(s, x) ==
  AverageAbsoluteDeviation_outer(
    s, x, ArithmeticMean_append(s.inner_average_calculator, x).s)

\* get_statistic of the calculators that report their outer average.
OuterAverage_get_statistic(s) ==
  AbstractCalculator_get_statistic(s.outer_average_calculator)

\* reset of the calculators that own an inner and an outer average.
InnerOuter_reset(s) ==
  Ok([s EXCEPT !.count = 0, !.statistic = NaN,
               !.inner_average_calculator = AbstractCalculator_reset(@).s,
               !.outer_average_calculator = AbstractCalculator_reset(@).s])

\* self._statistic += product, repaired when it is not finite.  With semi
\* the product comes from np.minimum and is a numpy scalar, and so is the
\* accumulator from then on.
Variance_accumulate(s, count, average, product) ==
  Ok([s EXCEPT !.count = count, !.average_calculator = average,
               !.statistic = FiniteOr(Add(s.statistic, product), product),
               !.numpy = s.numpy \/ s.semi])

\* A faulty variant of the product that follows it.
\* Both deltas taken after the average is updated.
Variance_product_after(s, x, count, average) ==
  Variance_accumulate(
    s, count, average,
    Pow(Sub(x, AbstractCalculator_get_statistic(average).v), 2))

\* A faulty variant of the product that follows it.
\* delta2 is never clamped.
Variance_product_unclamped(s, x, count, average) ==
  LET delta == IF count > 1
               THEN Sub(x, AbstractCalculator_get_statistic(s.average_calculator).v)
               ELSE Zero
      diff == Sub(x, AbstractCalculator_get_statistic(average).v)
  IN Variance_accumulate(s, count, average, Mul(delta, diff))

\* delta is taken before and delta2 after the average is updated.
Variance_product(s, x, count, average) ==
  LET delta == IF count > 1
               THEN Sub(x, AbstractCalculator_get_statistic(s.average_calculator).v)
               ELSE Zero
      diff == Sub(x, AbstractCalculator_get_statistic(average).v)
      delta2 == IF s.semi THEN Minimum0(diff) ELSE diff
  IN Variance_accumulate(s, count, average, Mul(delta, delta2))

Variance_append(s, x) ==
  Variance_product(s, x, s.count + 1,
                   ArithmeticMean_append(s.average_calculator, x).s)

\* A numpy scalar divided by zero gives inf or nan; the division of a
\* Python float raises.
Variance_divide(s, divisor) ==
  IF IsZero(divisor) /\ ~s.numpy THEN RaiseVal("ZeroDivisionError")
  ELSE Val(Div(s.statistic, divisor))

Variance_get_statistic(s) ==
  IF s.count < 2 THEN Val(NaN)
  ELSE Variance_divide(s, Sub(Num(s.count, 1), s.ddof))

Variance_reset(s) ==
  Ok([s EXCEPT !.count = 0, !.statistic = NaN, !.numpy = FALSE,
               !.average_calculator = AbstractCalculator_reset(@).s])

StandardDeviation_append(s, x) ==
  Ok([s EXCEPT !.count = s.count + 1,
               !.variance_calculator = Variance_append(@, x).s])

StandardDeviation_sqrt(v) == IF v.raised # "none" THEN v ELSE Val(Sqrt(v.v))

StandardDeviation_get_statistic(s) ==
  StandardDeviation_sqrt(Variance_get_statistic(s.variance_calculator))

StandardDeviation_reset(s) ==
  Ok([s EXCEPT !.count = 0, !.statistic = NaN,
               !.variance_calculator = Variance_reset(@).s])

\* A faulty variant of the accumulation that follows it.
\* The accumulation without the repair of the NaN accumulator.
Covariance_accumulate_unrepaired(s, average1, average2, product) ==
  Ok([s EXCEPT !.count = s.count + 1,
               !.average_calculator1 = average1,
               !.average_calculator2 = average2,
               !.statistic = Add(s.statistic, product)])

Covariance_accumulate(s, average1, average2, product) ==
  Ok([s EXCEPT !.count = s.count + 1,
               !.average_calculator1 = average1,
               !.average_calculator2 = average2,
               !.statistic = IF IsNaN(s.statistic) THEN product
                             ELSE Add(s.statistic, product)])

\* delta1 is taken before the first average is updated, delta2 after the
\* second one is.
Covariance_product(s, x, average1, average2) ==
  Covariance_accumulate(
    s, average1, average2,
    Mul(Sub(x.a, AbstractCalculator_get_statistic(s.average_calculator1).v),
        Sub(x.b, AbstractCalculator_get_statistic(average2).v)))

\* x is the pair (x[0], x[1]).
Covariance_append(s, x) ==
  Covariance_product(s, x,
                     ArithmeticMean_append(s.average_calculator1, x.a).s,
                     ArithmeticMean_append(s.average_calculator2, x.b).s)

\* self._statistic / float(self._count - self._ddof) on Python floats.
Covariance_divide(s, divisor) ==
  IF IsZero(divisor) THEN RaiseVal("ZeroDivisionError")
  ELSE Val(Div(s.statistic, divisor))

Covariance_get_statistic(s) ==
  IF s.count < 2 THEN Val(NaN)
  ELSE Covariance_divide(s, Sub(Num(s.count, 1), s.ddof))

Covariance_reset(s) ==
  Ok([s EXCEPT !.count = 0, !.statistic = NaN,
               !.average_calculator1 = AbstractCalculator_reset(@).s,
               !.average_calculator2 = AbstractCalculator_reset(@).s])

CentralMoment_outer(s, x, inner) ==
  Ok([s EXCEPT
        !.inner_average_calculator = inner,
        !.outer_average_calculator =
          ArithmeticMean_append(
            @, Pow(Sub(x, AbstractCalculator_get_statistic(inner).v), s.n)).s,
        !.count = s.count + 1])

CentralMoment_append(s, x) ==
  CentralMoment_outer(s, x, ArithmeticMean_append(s.inner_average_calculator, x).s)

\* The value fed to the outer average: the quotient average / deviation is
\* taken before the subtraction from x.
StandardizedMoment_outer(s, x, inner, sd) ==
  Ok([s EXCEPT
        !.inner_average_calculator = inner,
        !.inner_standard_deviation_calculator = sd,
        !.outer_average_calculator =
          ArithmeticMean_append(
            @, Pow(Sub(x, Div(AbstractCalculator_get_statistic(inner).v,
                              StandardDeviation_get_statistic(sd).v)),
                   s.n)).s,
        !.count = s.count + 1])

StandardizedMoment_append(s, x) ==
  StandardizedMoment_outer(
    s, x,
    ArithmeticMean_append(s.inner_average_calculator, x).s,
    StandardDeviation_append(s.inner_standard_deviation_calculator, x).s)

StandardizedMoment_reset(s) ==
  Ok([s EXCEPT !.count = 0, !.statistic = NaN,
               !.inner_average_calculator = AbstractCalculator_reset(@).s,
               !.inner_standard_deviation_calculator = StandardDeviation_reset(@).s,
               !.outer_average_calculator = AbstractCalculator_reset(@).s])

inner_append(s, x) ==
  CASE s.kind = "ArithmeticMean" -> ArithmeticMean_append(s, x)
    [] s.kind = "Moment" -> Moment_append(s, x)
    [] s.kind = "GeometricMean" -> GeometricMean_append(s, x)
    [] s.kind = "HarmonicMean" -> HarmonicMean_append(s, x)
    [] s.kind = "AverageAbsoluteDeviation" -> AverageAbsoluteDeviation_append(s, x)
    [] s.kind = "Variance" -> Variance_append(s, x)
    [] s.kind = "StandardDeviation" -> StandardDeviation_append(s, x)
    [] s.kind = "Covariance" -> Covariance_append(s, x)
    [] s.kind = "CentralMoment" -> CentralMoment_append(s, x)
    [] s.kind = "StandardizedMoment" -> StandardizedMoment_append(s, x)

inner_reset(s) ==
  CASE s.kind \in {"ArithmeticMean", "Moment"} -> AbstractCalculator_reset(s)
    [] s.kind = "GeometricMean" -> GeometricMean_reset(s)
    [] s.kind = "HarmonicMean" -> HarmonicMean_reset(s)
    [] s.kind \in {"AverageAbsoluteDeviation", "CentralMoment"} -> InnerOuter_reset(s)
    [] s.kind = "Variance" -> Variance_reset(s)
    [] s.kind = "StandardDeviation" -> StandardDeviation_reset(s)
    [] s.kind = "Covariance" -> Covariance_reset(s)
    [] s.kind = "StandardizedMoment" -> StandardizedMoment_reset(s)

inner_get_statistic(s) ==
  CASE s.kind \in {"ArithmeticMean", "Moment"} -> AbstractCalculator_get_statistic(s)
    [] s.kind = "GeometricMean" -> GeometricMean_get_statistic(s)
    [] s.kind = "HarmonicMean" -> HarmonicMean_get_statistic(s)
    [] s.kind \in {"AverageAbsoluteDeviation", "CentralMoment", "StandardizedMoment"} ->
         OuterAverage_get_statistic(s)
    [] s.kind = "Variance" -> Variance_get_statistic(s)
    [] s.kind = "StandardDeviation" -> StandardDeviation_get_statistic(s)
    [] s.kind = "Covariance" -> Covariance_get_statistic(s)

\* self._calculator.append(modified_x); self._count += 1
ControlVariate_count(s, target) ==
  IF target.raised # "none" THEN Raise([s EXCEPT !.calculator = target.s], target.raised)
  ELSE Ok([s EXCEPT !.calculator = target.s, !.count = s.count + 1])

\* covariance / control_variate_variance divides two Python floats and
\* raises when the variance is 0; a non-finite adjusted value is replaced by
\* x.
ControlVariate_adjust(s, x, y, control_variate_mean, control_variate_variance, covariance) ==
  IF IsZero(control_variate_variance) THEN Raise(s, "ZeroDivisionError")
  ELSE ControlVariate_count(
         s,
         inner_append(
           s.calculator,
           FiniteOr(Sub(x, Mul(Div(covariance, control_variate_variance),
                               Sub(y, control_variate_mean))), x)))

ControlVariate_statistics(s, x, y, mean, variance, cov) ==
  ControlVariate_adjust(
    [s EXCEPT !.control_variate_mean_calculator = mean,
              !.control_variate_variance_calculator = variance,
              !.covariance_calculator = cov],
    x, y,
    AbstractCalculator_get_statistic(mean).v,
    Variance_get_statistic(variance).v,
    Covariance_get_statistic(cov).v)

ControlVariate_update(s, x, y) ==
  ControlVariate_statistics(
    s, x, y,
    ArithmeticMean_append(s.control_variate_mean_calculator, y).s,
    Variance_append(s.control_variate_variance_calculator, y).s,
    Covariance_append(s.covariance_calculator, Pair(x, y)).s)

\* control_variate = self._control_variate_calculator.get_statistic()
ControlVariate_produced(s, x, produced) ==
  IF produced.raised # "none" THEN Raise(s, produced.raised)
  ELSE ControlVariate_update(s, x, produced.v)

\* self._control_variate_calculator.append(x)
ControlVariate_own(s, x, own) ==
  IF own.raised # "none"
  THEN Raise([s EXCEPT !.control_variate_calculator = own.s], own.raised)
  ELSE ControlVariate_produced([s EXCEPT !.control_variate_calculator = own.s], x,
                               inner_get_statistic(own.s))

\* The control variate of the call: the one given or the one produced.
ControlVariate_given(s, obs, own) ==
  IF obs.k = "pair" THEN ControlVariate_produced(s, obs.a, Val(obs.b))
  ELSE ControlVariate_own(s, obs, own)

\* append(x, control_variate): x alone stands for control_variate=None, the
\* pair (x, y) for control_variate=y.  Without a control variate and without
\* a control-variate calculator the call fails on None.
ControlVariate_append(s, obs) ==
  IF obs.k # "pair" /\ s.control_variate_calculator.kind = "None"
  THEN Raise(s, "AttributeError")
  ELSE ControlVariate_given(
         s, obs,
         IF obs.k = "pair" THEN Ok(s.control_variate_calculator)
         ELSE inner_append(s.control_variate_calculator, obs))

ControlVariate_get_statistic(s) == inner_get_statistic(s.calculator)

\* self._control_variate_variance is not an attribute of the object: the
\* fourth inner reset raises AttributeError and the covariance calculator is
\* never reached.
ControlVariate_reset_mean(s, mean) ==
  IF mean.raised # "none"
  THEN Raise([s EXCEPT !.control_variate_mean_calculator = mean.s], mean.raised)
  ELSE Raise([s EXCEPT !.control_variate_mean_calculator = mean.s], "AttributeError")

ControlVariate_reset_own(s, own) ==
  IF own.raised # "none"
  THEN Raise([s EXCEPT !.control_variate_calculator = own.s], own.raised)
  ELSE ControlVariate_reset_mean(
         [s EXCEPT !.control_variate_calculator = own.s],
         AbstractCalculator_reset(s.control_variate_mean_calculator))

ControlVariate_reset_target(s, target) ==
  IF target.raised # "none" THEN Raise([s EXCEPT !.calculator = target.s], target.raised)
  ELSE ControlVariate_reset_own(
         [s EXCEPT !.calculator = target.s],
         IF s.control_variate_calculator.kind = "None"
         THEN Ok(s.control_variate_calculator)
         ELSE inner_reset(s.control_variate_calculator))

ControlVariate_reset(s) ==
  ControlVariate_reset_target([s EXCEPT !.count = 0, !.statistic = NaN],
                              inner_reset(s.calculator))

wrapped_append(s, x) ==
  IF s.kind = "ControlVariate" THEN ControlVariate_append(s, x)
  ELSE inner_append(s, x)

wrapped_reset(s) ==
  IF s.kind = "ControlVariate" THEN ControlVariate_reset(s) ELSE inner_reset(s)

wrapped_get_statistic(s) ==
  IF s.kind = "ControlVariate" THEN ControlVariate_get_statistic(s)
  ELSE inner_get_statistic(s)

\* AbstractCalculator.extend: for x in xs: self.append(x)
RECURSIVE wrapped_extend(_, _), wrapped_extend_rest(_, _)
wrapped_extend(s, xs) ==
  IF xs = <<>> THEN Ok(s) ELSE wrapped_extend_rest(wrapped_append(s, Head(xs)), xs)

wrapped_extend_rest(r, xs) ==
  IF r.raised # "none" THEN r ELSE wrapped_extend(r.s, Tail(xs))

\* A faulty variant of the eviction that follows it.
\* Eviction from the back: the newest observations go.
Evict_newest(window, window_size) ==
  IF window_size # <<>> /\ Len(window) > window_size[1]
  THEN SubSeq(window, 1, window_size[1])
  ELSE window

\* while window_size is not None and len(window) > window_size: window.pop(0)
RECURSIVE Evict(_, _)
Evict(window, window_size) ==
  IF window_size # <<>> /\ Len(window) > window_size[1]
  THEN Evict(Tail(window), window_size)
  ELSE window

\* self._calculator.reset(); self._calculator.extend(self._window)
Window_replay(s, cleared) ==
  IF cleared.raised # "none" THEN SetCalculator(s, cleared)
  ELSE SetCalculator(s, wrapped_extend(cleared.s, s.window))

Window_recompute(s) ==
  IF s.calculator.kind = "None" THEN Ok(s)
  ELSE Window_replay(s, wrapped_reset(s.calculator))

Window_append(s, x) ==
  Window_recompute([s EXCEPT !.count = s.count + 1,
                             !.window = Evict(Append(s.window, x), s.window_size)])

\* np.quantile(xs, q) with the default linear interpolation, on sorted xs
\* of length >= 1, at the fractional index h = (len(xs) - 1) * q.
Quantile_at(sorted, h, lo) ==
  IF lo + 1 >= Len(sorted) THEN sorted[lo + 1]
  ELSE Add(sorted[lo + 1],
           Mul(Sub(h, Num(lo, 1)), Sub(sorted[lo + 2], sorted[lo + 1])))

Quantile_index(sorted, h) == Quantile_at(sorted, h, h.n \div h.d)

Quantile(xs, q) ==
  Quantile_index(SortSeq(xs, LAMBDA a, b : Gt(b, a)), Mul(Num(Len(xs) - 1, 1), q))

\* The batch functions of the factory functions, applied to the window.
Window_function(function, xs) ==
  CASE function = "quantile" ->
         IF Len(xs) > 0 THEN Quantile(xs, Num(1, 2)) ELSE NaN

Window_get_statistic(s) ==
  IF s.calculator.kind # "None" THEN wrapped_get_statistic(s.calculator)
  ELSE Val(Window_function(s.function, s.window))

\* self._window.clear() is reached only when the inner reset returns.
Window_clear(s, cleared) ==
  IF cleared.raised # "none" THEN SetCalculator(s, cleared)
  ELSE Ok([s EXCEPT !.calculator = cleared.s, !.window = <<>>])

Window_reset(s) ==
  Window_clear([s EXCEPT !.count = 0, !.statistic = NaN],
               IF s.calculator.kind = "None" THEN Ok(s.calculator)
               ELSE wrapped_reset(s.calculator))

\* The lambda of make_quantile_calculator does not read its quantile argument.
make_quantile_calculator(quantile, window_size) ==
  WindowCalculator(None, "quantile", window_size)

make_skewness_calculator(window_size) ==
  IF window_size # <<>>
  THEN WindowCalculator(StandardizedMomentIncrementalCalculator(3), "None", window_size)
  ELSE StandardizedMomentIncrementalCalculator(3)

\* The condition of the auto-reset, on the object whose count and detector
\* have been updated.
AutoResetting_fires(s) ==
  /\ \/ s.last_auto_reset_count = <<>>
     \/ s.count - s.last_auto_reset_count[1] >= MinAutoResetGap
  /\ Gt(Detector_statistic(s.changepoint_detector), s.threshold)

\* A faulty variant of the step that follows it.
\* The observation that triggers the reset is lost with what was before it.
AutoResetting_feed_before(s, x, fires, cleared) ==
  IF cleared.raised # "none" THEN SetCalculator(s, cleared)
  ELSE SetCalculator(
         [s EXCEPT !.last_auto_reset_count = IF fires THEN <<s.count>> ELSE @],
         IF fires THEN cleared ELSE wrapped_append(cleared.s, x))

\* self._calculator.append(x), after the reset if there was one.
AutoResetting_feed(s, x, fires, cleared) ==
  IF cleared.raised # "none" THEN SetCalculator(s, cleared)
  ELSE SetCalculator(
         [s EXCEPT !.last_auto_reset_count = IF fires THEN <<s.count>> ELSE @],
         wrapped_append(cleared.s, x))

AutoResetting_check(s, x, fires) ==
  AutoResetting_feed(s, x, fires,
                     IF fires THEN wrapped_reset(s.calculator) ELSE Ok(s.calculator))

AutoResetting_detect(s, x) == AutoResetting_check(s, x, AutoResetting_fires(s))

AutoResetting_update(s, x, det) ==
  AutoResetting_detect(
    [s EXCEPT !.changepoint_detector = det,
              !.changepoint_detector_clone = Detector_shared(@, det)], x)

AutoResetting_append(s, x) ==
  AutoResetting_update([s EXCEPT !.count = s.count + 1], x,
                       Detector_update(s.changepoint_detector, x))

AutoResetting_get_statistic(s) == wrapped_get_statistic(s.calculator)

\* The detector is restored from the clone once the inner reset returned.
AutoResetting_restore(s, cleared) ==
  IF cleared.raised # "none" THEN SetCalculator(s, cleared)
  ELSE Ok([s EXCEPT !.calculator = cleared.s,
                    !.changepoint_detector =
                      Detector_copy(s.changepoint_detector_clone)])

AutoResetting_reset(s) ==
  AutoResetting_restore([s EXCEPT !.count = 0, !.statistic = NaN],
                        wrapped_reset(s.calculator))

append(s, x) ==
  CASE s.kind = "Window" -> Window_append(s, x)
    [] s.kind = "AutoResetting" -> AutoResetting_append(s, x)
    [] OTHER -> wrapped_append(s, x)

\* A faulty variant of the loop that follows it.
\* extend that stops after the first element.
extend_rest_first(r, xs) == r

\* AbstractCalculator.extend: for x in xs: self.append(x)
RECURSIVE extend(_, _), extend_rest(_, _)
extend(s, xs) ==
  IF xs = <<>> THEN Ok(s) ELSE extend_rest(append(s, Head(xs)), xs)

extend_rest(r, xs) == IF r.raised # "none" THEN r ELSE extend(r.s, Tail(xs))

reset(s) ==
  CASE s.kind = "Window" -> Window_reset(s)
    [] s.kind = "AutoResetting" -> AutoResetting_reset(s)
    [] OTHER -> wrapped_reset(s)

get_statistic(s) ==
  CASE s.kind = "Window" -> Window_get_statistic(s)
    [] s.kind = "AutoResetting" -> AutoResetting_get_statistic(s)
    [] OTHER -> wrapped_get_statistic(s)

(***************************************************************************)
(* Bounds of the exploration                                               *)
(***************************************************************************)
\* The longest sequence of scalar observations fed between two resets.
MaxLen == 4

\* The longest sequence of paired observations fed between two resets.
MaxPairLen == 3

\* The longest sequence one extend call is given.
MaxChunk == 2

\* The largest window_size, moment order and ddof a calculator is built with.
MaxWindowSize == 2

MaxOrder == 3

MaxDdof == 2

\* The observations: a negative number, zero and a positive number.
Obs == {Num(-1, 1), Zero, Num(2, 1)}

\* The paired observations: the seconds repeat, the firsts repeat, both move.
PairObs ==
  {Pair(Num(-1, 1), Num(2, 1)), Pair(Zero, Zero), Pair(Num(2, 1), Num(-1, 1)),
   Pair(Num(2, 1), Num(2, 1)), Pair(Zero, Num(2, 1))}

\* threshold: the default 1.5e-5, and one no statistic of the run exceeds.
Thresholds == {Num(3, 200000), Num(1000, 1)}

WindowSizes == {<<>>} \cup {<<k>> : k \in 1..MaxWindowSize}

\* The calculators a WindowCalculator is built around.
Windowed ==
  {ArithmeticMeanIncrementalCalculator,
   VarianceIncrementalCalculator(One, FALSE),
   GeometricMeanIncrementalCalculator(TRUE),
   HarmonicMeanIncrementalCalculator,
   StandardizedMomentIncrementalCalculator(3),
   ControlVariateIncrementalCalculator(ArithmeticMeanIncrementalCalculator,
                                       ArithmeticMeanIncrementalCalculator)}

\* The freshly constructed calculators a run starts from.
Calculators ==
  {ArithmeticMeanIncrementalCalculator, HarmonicMeanIncrementalCalculator,
   AverageAbsoluteDeviationIncrementalCalculator,
   StandardDeviationIncrementalCalculator}
  \cup {MomentIncrementalCalculator(n) : n \in 1..MaxOrder}
  \cup {GeometricMeanIncrementalCalculator(r) : r \in BOOLEAN}
  \cup {VarianceIncrementalCalculator(Num(f, 1), semi) :
          f \in 0..MaxDdof, semi \in BOOLEAN}
  \cup {CovarianceIncrementalCalculator(Num(f, 1)) : f \in 0..MaxDdof}
  \cup {CentralMomentIncrementalCalculator(n) : n \in 1..MaxOrder}
  \cup {StandardizedMomentIncrementalCalculator(n) : n \in {3, 4}}
  \cup {ControlVariateIncrementalCalculator(ArithmeticMeanIncrementalCalculator, c) :
          c \in {None, ArithmeticMeanIncrementalCalculator}}
  \cup {WindowCalculator(c, "None", w) : c \in Windowed, w \in WindowSizes}
  \cup {make_quantile_calculator(Num(1, 2), w) : w \in WindowSizes}
  \cup {AutoResettingIncrementalCalculator(ArithmeticMeanIncrementalCalculator,
                                           ChangepointDetector(in_place), th) :
          in_place \in BOOLEAN, th \in Thresholds}

\* What the elements of the argument of extend are: extend calls append(x)
\* with one argument, a pair for the covariance calculator only.
Elements(s) == IF s.kind = "Covariance" THEN PairObs ELSE Obs

\* What append is called with: the control-variate calculator also takes
\* append(x, control_variate).
Inputs(s) == IF s.kind = "ControlVariate" THEN Obs \cup PairObs ELSE Elements(s)

LenBound(s) ==
  IF s.kind \in {"Covariance", "ControlVariate"} THEN MaxPairLen ELSE MaxLen

\* The arguments of one extend call.
Chunks(s) == UNION {[1..n -> Elements(s)] : n \in 0..MaxChunk}

\* The number of elements of ys whose append was called by extend(s, ys):
\* all of them, or those up to the first one whose append raised.
FirstOf(failing, n) ==
  IF failing = {} THEN n ELSE CHOOSE j \in failing : \A i \in failing : j <= i

Consumed(s, ys) ==
  FirstOf({j \in 1..Len(ys) : extend(s, SubSeq(ys, 1, j)).raised # "none"}, Len(ys))

(***************************************************************************)
(* The state: the calculator under test, the object its constructor        *)
(* returned, the observations append was called with since construction or *)
(* the last reset, the last call, the exception that ended the run and     *)
(* whether reset was called.  pending holds the observations still to be fed: to   *)
(* the calculator itself when a sequence is fed again after a reset, to the*)
(* twin when extend is compared with repeated append.  twin is the result  *)
(* of the last call on a second object that is fed by append only.         *)
(* quantile is the quantile the factory of the quantile calculator was     *)
(* called with.  since_auto_reset is <<>> as long as no auto-reset         *)
(* happened, and then <<k>> for the k appends since the last one; the      *)
(* specification of the auto-resetting calculator keeps it.                *)
(***************************************************************************)
VARIABLES calc, fresh, xs, op, raised, was_reset, twin, pending, quantile, since_auto_reset, _random_state, drawn, args, returned, timer

\* The state of the randomness and timer modules: the process-wide random
\* state (the generator installed, or None), how many numbers each
\* generator has produced, the arguments and the result of the last call,
\* and the Timer (None until one is constructed).
elsewhere == <<_random_state, drawn, args, returned, timer>>

vars == <<calc, fresh, xs, op, raised, was_reset, twin, pending, quantile, since_auto_reset, elsewhere>>

\* np.random.RandomState(seed): an object with an identity.
RandomState(id, seed) == [kind |-> "RandomState", id |-> id, seed |-> seed]

\* The generator random_state() makes when none is installed.
DefaultSeed == 42

DefaultGenerator == RandomState(0, DefaultSeed)

\* The generators the caller makes: as many as MaxGenerators, the first
\* with the default seed.
MaxGenerators == 2

RandomStates == {RandomState(id, IF id = 1 THEN DefaultSeed ELSE 131 + id) : id \in 1..MaxGenerators}

\* The randomness and timer modules as imported and never used.
Unused ==
  /\ _random_state = None
  /\ drawn = [id \in 0..MaxGenerators |-> 0]
  /\ args = None
  /\ returned = None
  /\ timer = None

Init ==
  /\ calc \in Calculators
  /\ fresh = calc
  /\ xs = <<>>
  /\ op = "init"
  /\ raised = "none"
  /\ was_reset = FALSE
  /\ twin = Ok(None)
  /\ pending = <<>>
  /\ quantile = Num(1, 2)
  /\ since_auto_reset = <<>>
  /\ Unused

\* The call returns or raises: r is the object after it and the exception.
Return(r) == calc' = r.s /\ raised' = r.raised

\* The number of observations the run has fed that the object still holds:
\* those since the last reset, and all those a detector that updates in
\* place was fed.
Taken ==
  IF calc.kind = "AutoResetting" THEN Len(calc.changepoint_detector.ys)
  ELSE Len(xs)

\* calc.append(x); an uncaught exception ends the run.
AppendCall ==
  /\ raised = "none"
  /\ Taken < LenBound(calc)
  /\ \E x \in Inputs(calc) :
       /\ Return(append(calc, x))
       /\ xs' = Append(xs, x)
  /\ op' = "append"
  /\ UNCHANGED <<fresh, was_reset, twin, pending, quantile, elsewhere, since_auto_reset>>

\* calc.extend(ys)
Extended(ys) ==
  /\ Return(extend(calc, ys))
  /\ xs' = xs \o SubSeq(ys, 1, Consumed(calc, ys))
  /\ op' = "extend"

\* calc.extend([x1, x2])
ExtendCall ==
  /\ raised = "none"
  /\ Taken + 2 <= LenBound(calc)
  /\ \E x1 \in Elements(calc), x2 \in Elements(calc) : Extended(<<x1, x2>>)
  /\ UNCHANGED <<fresh, was_reset, twin, pending, quantile, elsewhere, since_auto_reset>>

\* calc.reset()
ResetCall ==
  /\ raised = "none"
  /\ Return(reset(calc))
  /\ xs' = <<>>
  /\ op' = "reset"
  /\ was_reset' = TRUE
  /\ UNCHANGED <<fresh, twin, pending, quantile, elsewhere, since_auto_reset>>

Next == AppendCall \/ ExtendCall \/ ResetCall

Spec == Init /\ [][Next]_vars

(***************************************************************************)
(* Feed, reset, feed again: a sequence is fed to a fresh calculator, the   *)
(* calculator is reset, and the same sequence is fed to it once more.      *)
(***************************************************************************)
FeedCall == ~was_reset /\ AppendCall

ResetAfterFeed ==
  /\ raised = "none"
  /\ ~was_reset
  /\ Return(reset(calc))
  /\ pending' = xs
  /\ xs' = <<>>
  /\ op' = "reset"
  /\ was_reset' = TRUE
  /\ UNCHANGED <<fresh, twin, quantile, elsewhere, since_auto_reset>>

RefeedCall ==
  /\ raised = "none"
  /\ was_reset
  /\ pending # <<>>
  /\ Return(append(calc, Head(pending)))
  /\ xs' = Append(xs, Head(pending))
  /\ pending' = Tail(pending)
  /\ op' = "append"
  /\ UNCHANGED <<fresh, was_reset, twin, quantile, elsewhere, since_auto_reset>>

NextRefeed == FeedCall \/ ResetAfterFeed \/ RefeedCall

SpecRefeed == Init /\ [][NextRefeed]_vars

(***************************************************************************)
(* extend against repeated append: calc is fed by extend, and the twin,    *)
(* constructed alike, is fed the same observations one append at a time.   *)
(***************************************************************************)
InitExtend ==
  /\ calc \in Calculators
  /\ fresh = calc
  /\ xs = <<>>
  /\ op = "init"
  /\ raised = "none"
  /\ was_reset = FALSE
  /\ twin = Ok(calc)
  /\ pending = <<>>
  /\ quantile = Num(1, 2)
  /\ since_auto_reset = <<>>
  /\ Unused

ExtendTwin ==
  /\ raised = "none"
  /\ twin.raised = "none"
  /\ pending = <<>>
  /\ \E ys \in Chunks(calc) :
       /\ Len(xs) + Len(ys) <= LenBound(calc)
       /\ Extended(ys)
       /\ pending' = ys
  /\ UNCHANGED <<fresh, was_reset, twin, quantile, elsewhere, since_auto_reset>>

TwinAppend ==
  /\ twin.raised = "none"
  /\ pending # <<>>
  /\ twin' = append(twin.s, Head(pending))
  /\ pending' = Tail(pending)
  /\ UNCHANGED <<calc, fresh, xs, op, raised, was_reset, quantile, elsewhere, since_auto_reset>>

NextExtend == ExtendTwin \/ TwinAppend

SpecExtend == InitExtend /\ [][NextExtend]_vars

TypeOK ==
  /\ raised \in {"none", "AttributeError", "ZeroDivisionError", "AssertionError"}
  /\ op \in {"init", "append", "extend", "reset", "restore"}
  /\ was_reset \in BOOLEAN
  /\ Len(xs) <= LenBound(fresh)
  /\ calc.kind = fresh.kind

(***************************************************************************)
(* Reference statistics, computed in two passes over the whole sequence.   *)
(***************************************************************************)
MeanOf(ys) == Div(SumSeq(ys), Num(Len(ys), 1))

\* The sum of (as[i] - ma) * (bs[i] - mb).
RECURSIVE SumOfProducts(_, _, _, _)
SumOfProducts(as, bs, ma, mb) ==
  IF as = <<>> THEN Zero
  ELSE Add(Mul(Sub(Head(as), ma), Sub(Head(bs), mb)),
           SumOfProducts(Tail(as), Tail(bs), ma, mb))

SampleCovariance(as, bs) ==
  Div(SumOfProducts(as, bs, MeanOf(as), MeanOf(bs)), Num(Len(as) - 1, 1))

SampleVariance(ys) == SampleCovariance(ys, ys)

Firsts(ps) == [i \in 1..Len(ps) |-> ps[i].a]

Seconds(ps) == [i \in 1..Len(ps) |-> ps[i].b]

\* The last min(Len(ys), k) elements of ys.
LastK(ys, k) == SubSeq(ys, IF Len(ys) > k THEN Len(ys) - k + 1 ELSE 1, Len(ys))

\* The object a freshly constructed calculator becomes when it is fed ys.
Fed(s, ys) == extend(s, ys).s

ZeroState(e) == e.count = 0 /\ IsNaN(e.statistic)

\* The estimators a calculator owns.
Owned(s) ==
  CASE s.kind = "HarmonicMean" -> {s.ac}
    [] s.kind \in {"AverageAbsoluteDeviation", "CentralMoment"} ->
         {s.inner_average_calculator, s.outer_average_calculator}
    [] s.kind = "Variance" -> {s.average_calculator}
    [] s.kind = "StandardDeviation" -> {s.variance_calculator}
    [] s.kind = "Covariance" -> {s.average_calculator1, s.average_calculator2}
    [] s.kind = "StandardizedMoment" ->
         {s.inner_average_calculator, s.inner_standard_deviation_calculator,
          s.outer_average_calculator}
    [] s.kind = "ControlVariate" ->
         {e \in {s.calculator, s.control_variate_calculator} : e.kind # "None"}
         \cup {s.control_variate_mean_calculator,
               s.control_variate_variance_calculator, s.covariance_calculator}
    [] s.kind \in {"Window", "AutoResetting"} ->
         {e \in {s.calculator} : e.kind # "None"}
    [] OTHER -> {}

(***************************************************************************)
(* Claims                                                                  *)
(***************************************************************************)
\* C1: a freshly constructed ArithmeticMeanIncrementalCalculator fed a
\* sequence xs of length >= 1 by append reports the arithmetic mean
\* sum(xs) / len(xs).
C1_MeanIsArithmeticMean ==
  (fresh = ArithmeticMeanIncrementalCalculator /\ ~was_reset /\ Len(xs) >= 1)
    => get_statistic(calc) = Val(MeanOf(xs))

C1_Witness ==
  /\ fresh = ArithmeticMeanIncrementalCalculator
  /\ ~was_reset
  /\ xs = <<Num(-1, 1), Zero, Num(2, 1)>>
  /\ get_statistic(calc) = Val(Num(1, 3))

\* C2: a VarianceIncrementalCalculator with ddof = 1 fed a sequence xs of
\* length >= 2 reports the two-pass sample variance
\* sum((x - mean(xs))^2) / (len(xs) - 1).
C2_VarianceIsSampleVariance ==
  (fresh = VarianceIncrementalCalculator(One, FALSE) /\ ~was_reset /\ Len(xs) >= 2)
    => get_statistic(calc) = Val(SampleVariance(xs))

C2_Witness ==
  /\ fresh = VarianceIncrementalCalculator(One, FALSE)
  /\ ~was_reset
  /\ xs = <<Num(-1, 1), Zero, Num(2, 1)>>
  /\ get_statistic(calc) = Val(Num(7, 3))

\* C3: a CovarianceIncrementalCalculator with ddof = 1 fed pairs (x_i, y_i),
\* at least two of them, reports
\* sum((x_i - mean(xs)) * (y_i - mean(ys))) / (len(xs) - 1); the accumulator
\* is a number, not the NaN product of the first pair.
C3_CovarianceIsSampleCovariance ==
  (fresh = CovarianceIncrementalCalculator(One) /\ ~was_reset /\ Len(xs) >= 2)
    => /\ get_statistic(calc) = Val(SampleCovariance(Firsts(xs), Seconds(xs)))
       /\ ~IsNaN(calc.statistic)

C3_Witness ==
  /\ fresh = CovarianceIncrementalCalculator(One)
  /\ ~was_reset
  /\ xs = <<Pair(Num(-1, 1), Num(2, 1)), Pair(Num(2, 1), Num(-1, 1))>>
  /\ get_statistic(calc) = Val(Num(-9, 2))

\* C4: after n appends to a WindowCalculator wrapping an estimator E with
\* window_size = k, the calls have completed as they do on a fresh copy of E
\* fed the last min(n, k) observations in order, and get_statistic() gives
\* that copy's statistic.
C4_WindowIsLastK ==
  (/\ fresh.kind = "Window"
   /\ fresh.calculator.kind # "None"
   /\ fresh.window_size # <<>>
   /\ ~was_reset
   /\ Len(xs) >= 1)
    => /\ raised = extend(fresh.calculator, LastK(xs, fresh.window_size[1])).raised
       /\ raised = "none" =>
            get_statistic(calc) =
              get_statistic(Fed(fresh.calculator, LastK(xs, fresh.window_size[1])))

\* C5: for every calculator class, feeding xs, calling reset() and feeding
\* the same xs again completes, and then get_statistic() and get_count() are
\* those of a freshly constructed calculator fed xs once.
C5_ResetThenRefeedIsFresh ==
  was_reset
    => /\ raised = "none"
       /\ pending = <<>> =>
            /\ get_statistic(calc) = get_statistic(Fed(fresh, xs))
            /\ get_count(calc) = get_count(Fed(fresh, xs))

\* C6: reset() on any composite calculator completes and leaves the count
\* of the composite at 0 and every estimator it owns in its zero state
\* (count 0, statistic not-a-number).
C6_ResetZeroesOwned ==
  op = "reset"
    => /\ raised = "none"
       /\ get_count(calc) = 0
       /\ \A e \in Owned(calc) : ZeroState(e)

\* C7: for every estimator class, after any sequence of append and reset
\* calls get_count() is the number of append calls made since construction
\* or the most recent reset().
C7_CountIsNumberOfAppends ==
  raised = "none" => get_count(calc) = Len(xs)

\* C8: for every estimator class, get_statistic() on a freshly constructed
\* or freshly reset estimator (no append yet) returns not-a-number and does
\* not raise.
C8_FreshStatisticIsNaN ==
  (xs = <<>> /\ raised = "none") => get_statistic(calc) = Val(NaN)

\* C9: the variance, covariance and standard-deviation estimators return
\* not-a-number from get_statistic(), without raising, while fewer than 2
\* observations have been appended since construction or the last reset, and
\* a defined number once 2 or more have been.
C9_NaNBelowTwoThenDefined ==
  (calc.kind \in {"Variance", "Covariance", "StandardDeviation"} /\ raised = "none")
    => /\ Len(xs) < 2 => get_statistic(calc) = Val(NaN)
       /\ Len(xs) >= 2 =>
            /\ get_statistic(calc).raised = "none"
            /\ ~IsNaN(get_statistic(calc).v)

\* C10: for every estimator and every sequence, extend leaves the estimator
\* and the estimators it owns in the state reached by one append per
\* element in the same order from the same state, and raises what those
\* appends raise.
C10_ExtendIsRepeatedAppend ==
  (pending = <<>> \/ twin.raised # "none")
    => twin.s = calc /\ twin.raised = raised

C10_Witness ==
  /\ op = "extend"
  /\ pending = <<>>
  /\ Len(xs) = MaxLen
  /\ calc.kind = "StandardizedMoment"
  /\ calc.count = MaxLen
  /\ twin.s = calc

\* The observation of the append call that led to the next state.
Appended == xs'[Len(xs')]

\* C11: an append(x, y) of the control-variate calculator after which the
\* running variance of the control variate is zero does not raise, and the
\* raw x has been fed unmodified to the target estimator, whose count has
\* increased by one.
C11_Step ==
  (/\ raised = "none"
   /\ calc.kind = "ControlVariate"
   /\ op' = "append"
   /\ Appended.k = "pair"
   /\ IsZero(Variance_get_statistic(calc'.control_variate_variance_calculator).v))
    => /\ raised' = "none"
       /\ calc'.calculator = inner_append(calc.calculator, Appended.a).s
       /\ calc'.calculator.count = calc.calculator.count + 1

C11_ZeroVarianceFallsBack == [][C11_Step]_vars

\* The sequence feeds each observation as its own control variate.
SelfPaired(ps) == \A i \in 1..Len(ps) : ps[i].k = "pair" /\ ps[i].a = ps[i].b

\* C12: a control-variate calculator wrapping an arithmetic mean and fed a
\* stream of nonzero variance with y = x on every call reports the mean of
\* the control variate.
C12_PerfectControlVariateIsItsMean ==
  (/\ fresh.kind = "ControlVariate"
   /\ fresh.calculator = ArithmeticMeanIncrementalCalculator
   /\ ~was_reset
   /\ raised = "none"
   /\ Len(xs) >= 2
   /\ SelfPaired(xs)
   /\ ~IsZero(SampleVariance(Seconds(xs))))
    => get_statistic(calc) = Val(MeanOf(Seconds(xs)))

\* The n-th powers of the observations.
Powers(ys, n) == [i \in 1..Len(ys) |-> Pow(ys[i], n)]

\* C20: a MomentIncrementalCalculator(n) fed a sequence xs of length >= 1
\* reports the mean of x**n over xs, the first observation included.
C20_MomentIsMeanOfPowers ==
  (fresh.kind = "Moment" /\ ~was_reset /\ Len(xs) >= 1)
    => get_statistic(calc) = Val(MeanOf(Powers(xs, fresh.n)))

(***************************************************************************)
(* The auto-resetting calculator over runs long enough for two auto-resets:*)
(* appends, and one manual reset followed by a few more appends.           *)
(***************************************************************************)
\* The longest sequence fed to the auto-resetting calculator before the
\* manual reset, and after it.
MaxAutoLen == 12

MaxAfterReset == 2

AutoObs == {Zero, Num(2, 1)}

\* threshold: the default 1.5e-5, one the third observation can exceed, and
\* one no statistic of the run exceeds.
AutoThresholds == {Num(3, 200000), Num(5, 2), Num(1000, 1)}

\* The detector of these runs is one whose copies are independent of it; the
\* gating of the auto-resets does not look at the copies.
InitAuto ==
  /\ calc \in {AutoResettingIncrementalCalculator(
                 ArithmeticMeanIncrementalCalculator,
                 ChangepointDetector(FALSE), th) : th \in AutoThresholds}
  /\ fresh = calc
  /\ xs = <<>>
  /\ op = "init"
  /\ raised = "none"
  /\ was_reset = FALSE
  /\ twin = Ok(None)
  /\ pending = <<>>
  /\ quantile = Num(1, 2)
  /\ since_auto_reset = <<>>
  /\ Unused

\* Whether the append of x that took the calculator from s to t reset the
\* target before feeding it and recorded the reset point.
AutoReset(s, t, x) ==
  /\ t.last_auto_reset_count = <<t.count>>
  /\ t.calculator = wrapped_append(wrapped_reset(s.calculator).s, x).s

Elapsed(since, restarted) ==
  IF restarted THEN <<0>>
  ELSE IF since = <<>> THEN <<>> ELSE <<since[1] + 1>>

AutoAppend ==
  /\ raised = "none"
  /\ Len(xs) < (IF was_reset THEN MaxAfterReset ELSE MaxAutoLen)
  /\ \E x \in AutoObs :
       /\ Return(append(calc, x))
       /\ xs' = Append(xs, x)
       /\ since_auto_reset' = Elapsed(since_auto_reset, AutoReset(calc, calc', x))
  /\ op' = "append"
  /\ UNCHANGED <<fresh, was_reset, twin, pending, quantile, elsewhere>>

AutoManualReset ==
  /\ ~was_reset
  /\ ResetCall

NextAuto == AutoAppend \/ AutoManualReset

SpecAuto == InitAuto /\ [][NextAuto]_vars

\* C13: append(x) of the auto-resetting calculator resets the target
\* exactly when, x fed to the detector, the statistic of the detector
\* exceeds the threshold and no auto-reset happened yet or at least 10
\* observations were appended since the last one.
C13_Step ==
  (calc.kind = "AutoResetting" /\ op' = "append" /\ raised' = "none")
    => (AutoReset(calc, calc', Appended)
          <=> /\ Gt(Detector_statistic(calc'.changepoint_detector), calc.threshold)
              /\ \/ since_auto_reset = <<>>
                 \/ since_auto_reset[1] + 1 >= 10)

C13_AutoResetExactlyWhenDue == [][C13_Step]_vars

\* The first of the observations the target holds: the one that triggered
\* the last auto-reset, or the first of all when there was none since the
\* construction or the manual reset.
ResetPoint ==
  IF since_auto_reset = <<>> \/ since_auto_reset[1] >= Len(xs) THEN 1
  ELSE Len(xs) - since_auto_reset[1]

\* C14: the observation that triggers an auto-reset is fed to the target
\* after the reset: get_statistic() is the statistic of the target over the
\* observations from the last auto-reset point on, the point included, and
\* over all of them if there was no auto-reset.
C14_StatisticSinceResetPoint ==
  (calc.kind = "AutoResetting" /\ Len(xs) >= 1)
    => /\ get_statistic(calc) = Val(MeanOf(SubSeq(xs, ResetPoint, Len(xs))))
       /\ calc.calculator = Fed(fresh.calculator, SubSeq(xs, ResetPoint, Len(xs)))

C14_Witness ==
  /\ ~was_reset
  /\ calc.last_auto_reset_count = <<MinAutoResetGap + 2>>
  /\ ResetPoint = MinAutoResetGap + 2
  /\ get_statistic(calc) = Val(xs[ResetPoint])
  /\ MeanOf(xs) # xs[ResetPoint]

\* C15: after reset() of the auto-resetting calculator, whatever was fed
\* before, the detector and the clone kept for later resets are in the state
\* of a detector that never received update(), and the target is in its
\* zero state.
C15_ResetRestoresDetector ==
  (calc.kind = "AutoResetting" /\ op = "reset" /\ raised = "none")
    => /\ calc.changepoint_detector = fresh.changepoint_detector
       /\ calc.changepoint_detector_clone = fresh.changepoint_detector_clone
       /\ ZeroState(calc.calculator)

(***************************************************************************)
(* The window calculator from its construction on: around an estimator,    *)
(* around the batch function of the quantile factory, or with neither.     *)
(***************************************************************************)
Quantiles == {Zero, Num(1, 4), Num(1, 2), One}

\* The constructor call returned the object or raised.
Constructed(r) ==
  /\ calc = r.s
  /\ fresh = r.s
  /\ raised = r.raised

InitWindow ==
  /\ quantile \in Quantiles
  /\ \/ \E c \in Windowed \cup {None}, w \in WindowSizes :
          Constructed(WindowCalculator_init(c, "None", w))
     \/ \E w \in WindowSizes : Constructed(Ok(make_quantile_calculator(quantile, w)))
  /\ xs = <<>>
  /\ op = "init"
  /\ was_reset = FALSE
  /\ twin = Ok(None)
  /\ pending = <<>>
  /\ since_auto_reset = <<>>
  /\ Unused

SpecWindow == InitWindow /\ [][Next]_vars

\* C17: constructing a WindowCalculator with neither an estimator nor a
\* function fails at construction with an assertion error: no instance has
\* both calculator and function unset, whatever was called on it since.
C17_NeitherFailsAtConstruction ==
  /\ \A w \in WindowSizes :
       WindowCalculator_init(None, "None", w) = Raise(None, "AssertionError")
  /\ calc.kind = "Window" => calc.calculator # None \/ calc.function # "None"
  /\ fresh.kind = "Window" => fresh.calculator # None \/ fresh.function # "None"
  /\ calc = None <=> raised = "AssertionError"

C17_Witness ==
  /\ op = "init"
  /\ calc = None
  /\ raised = "AssertionError"

\* C18: after any sequence of append and reset calls the buffer of a
\* WindowCalculator with window_size = k holds at most k observations, the
\* most recent min(n, k) of the n appended since the last reset, oldest
\* first; with window_size unset it holds all of them.
C18_BufferIsMostRecent ==
  calc.kind = "Window"
    => /\ calc.window_size = <<>> => calc.window = xs
       /\ calc.window_size # <<>> =>
            /\ Len(calc.window) <= calc.window_size[1]
            /\ calc.window = LastK(xs, calc.window_size[1])

C18_Witness ==
  /\ calc.kind = "Window"
  /\ was_reset
  /\ op = "append"
  /\ raised = "none"
  /\ calc.window_size # <<>>
  /\ Len(xs) > calc.window_size[1]
  /\ calc.window = LastK(xs, calc.window_size[1])
  /\ calc.window # SubSeq(xs, 1, calc.window_size[1])

\* C19: the calculator of make_quantile_calculator(quantile=q, window_size=k)
\* reports the q-quantile of the window, the last k observations or all of
\* them when k is unset, for every q in [0, 1], and not-a-number when the
\* window is empty.
C19_QuantileOfWindow ==
  (calc.kind = "Window" /\ calc.function = "quantile")
    => get_statistic(calc) =
         Val(IF xs = <<>> THEN NaN
             ELSE IF calc.window_size = <<>> THEN Quantile(xs, quantile)
             ELSE Quantile(LastK(xs, calc.window_size[1]), quantile))

(***************************************************************************)
(* The state snapshot: __getstate__ returns the attributes the class       *)
(* lists, __reduce__ names the factory of the class and that snapshot, and *)
(* the reconstruction calls the factory and then __setstate__ on what it   *)
(* returned.  The classes that define none of the three (the geometric and *)
(* harmonic means, the average absolute deviation and the control variate) *)
(* go through the default protocol of object: a new instance without       *)
(* attributes, and the whole attribute dictionary as the snapshot.  The    *)
(* type of the accumulator of the variance travels with its value.         *)
(***************************************************************************)
StateKeys(s) ==
  CASE s.kind = "ArithmeticMean" -> {"count", "statistic"}
    [] s.kind = "Moment" -> {"n", "count", "statistic"}
    [] s.kind = "CentralMoment" ->
         {"n", "inner_average_calculator", "outer_average_calculator",
          "count", "statistic"}
    [] s.kind = "StandardizedMoment" ->
         {"n", "inner_average_calculator", "inner_standard_deviation_calculator",
          "outer_average_calculator", "count", "statistic"}
    [] s.kind = "Variance" ->
         {"count", "statistic", "numpy", "average_calculator", "ddof"}
    [] s.kind = "StandardDeviation" -> {"count", "statistic", "variance_calculator"}
    [] s.kind = "Covariance" ->
         {"count", "statistic", "average_calculator1", "average_calculator2"}
    [] s.kind = "AutoResetting" ->
         {"count", "statistic", "calculator", "changepoint_detector"}
    [] s.kind = "Window" ->
         {"count", "statistic", "window_size", "window", "calculator", "function"}
    [] OTHER -> DOMAIN s \ {"kind"}

getstate(s) == [key \in StateKeys(s) |-> s[key]]

\* _create_*(): the object the constructor of the class of s returns when
\* called without arguments; in_place is that of the default detector.
factory(s, in_place) ==
  CASE s.kind = "ArithmeticMean" -> ArithmeticMeanIncrementalCalculator
    [] s.kind = "Moment" -> MomentIncrementalCalculator(1)
    [] s.kind = "CentralMoment" -> CentralMomentIncrementalCalculator(1)
    [] s.kind = "StandardizedMoment" -> StandardizedMomentIncrementalCalculator(1)
    [] s.kind = "Variance" -> VarianceIncrementalCalculator(One, FALSE)
    [] s.kind = "StandardDeviation" -> StandardDeviationIncrementalCalculator
    [] s.kind = "Covariance" -> CovarianceIncrementalCalculator(One)
    [] s.kind = "AutoResetting" ->
         AutoResettingIncrementalCalculator(ArithmeticMeanIncrementalCalculator,
                                            ChangepointDetector(in_place),
                                            Num(3, 200000))
    [] s.kind = "Window" ->
         WindowCalculator(ArithmeticMeanIncrementalCalculator, "None", <<10>>)
    [] OTHER -> [kind |-> s.kind]

\* self._key = state['_key'] for the keys given.
Assigned(obj, state, keys) ==
  [key \in DOMAIN obj \cup keys |-> IF key \in keys THEN state[key] ELSE obj[key]]

\* WindowCalculator.__setstate__: the buffer is refilled by
\* self._window.push_back(x), which a list does not have; the assignments
\* of the calculator and the function come after the loop.
Window_setstate(obj, state) ==
  IF state.window = <<>> THEN Ok(Assigned(obj, state, DOMAIN state))
  ELSE Raise([Assigned(obj, state, {"count", "statistic", "window_size"})
                EXCEPT !.window = <<>>], "AttributeError")

setstate(obj, state) ==
  IF obj.kind = "Window" THEN Window_setstate(obj, state)
  ELSE Ok(Assigned(obj, state, DOMAIN state))

\* The reconstruction from what __reduce__ returns.
restore(s, in_place) == setstate(factory(s, in_place), getstate(s))

\* twin = reconstruction of calc from its snapshot
RestoreCall ==
  /\ raised = "none"
  /\ \E in_place \in BOOLEAN : twin' = restore(calc, in_place)
  /\ op' = "restore"
  /\ UNCHANGED <<calc, fresh, xs, raised, was_reset, pending, quantile, elsewhere, since_auto_reset>>

NextSnapshot == AppendCall \/ RestoreCall

SpecSnapshot == Init /\ [][NextSnapshot]_vars

\* C16: for every class, the snapshot taken after any sequence of appends
\* and the reconstruction through the factory and __setstate__ complete,
\* and the reconstructed object has the get_count() and the get_statistic()
\* of the original; the buffer of a WindowCalculator is restored in order.
C16_RestoredReportsTheSame ==
  op = "restore"
    => /\ twin.raised = "none"
       /\ get_count(twin.s) = get_count(calc)
       /\ get_statistic(twin.s) = get_statistic(calc)
       /\ calc.kind = "Window" => twin.s.window = calc.window

\* The standardized deviation of x: the deviation from the average is divided
\* by the standard deviation.
Standardized(x, average, deviation) == Div(Sub(x, average), deviation)

\* C21: append(x) of the standardized-moment calculator updates the inner
\* average and the inner standard deviation with x and then feeds
\* ((x - inner_mean) / inner_sd)**n to the outer average.
C21_Step ==
  (calc.kind = "StandardizedMoment" /\ op' = "append" /\ raised' = "none")
    => /\ calc'.inner_average_calculator =
            ArithmeticMean_append(calc.inner_average_calculator, Appended).s
       /\ calc'.inner_standard_deviation_calculator =
            StandardDeviation_append(calc.inner_standard_deviation_calculator,
                                     Appended).s
       /\ calc'.outer_average_calculator =
            ArithmeticMean_append(
              calc.outer_average_calculator,
              Pow(Standardized(
                    Appended,
                    AbstractCalculator_get_statistic(calc'.inner_average_calculator).v,
                    StandardDeviation_get_statistic(
                      calc'.inner_standard_deviation_calculator).v),
                  calc.n)).s

C21_StandardizedBeforePower == [][C21_Step]_vars

\* The n-th powers of the deviations of ys from their mean.
Deviations(ys, n) == [i \in 1..Len(ys) |-> Pow(Sub(ys[i], MeanOf(ys)), n)]

\* C22: a central-moment calculator of order 2 fed a sequence xs of length
\* >= 1 reports the variance of xs without degrees-of-freedom correction,
\* the mean over xs of (x - mean(xs))**2.
C22_SecondCentralMomentIsVariance ==
  (fresh = CentralMomentIncrementalCalculator(2) /\ ~was_reset /\ Len(xs) >= 1)
    => get_statistic(calc) = Val(MeanOf(Deviations(xs, 2)))

\* C23: no operation of any estimator raises when every observation is a
\* finite number, 0 and negative numbers included, in any state such
\* operations reach and for any ddof.
C23_NothingRaises ==
  /\ raised = "none"
  /\ get_statistic(calc).raised = "none"

(***************************************************************************)
(* The process-wide random state of the randomness module.  A caught       *)
(* NumericError does not end the run: raised is the outcome of the last    *)
(* call.                                                                   *)
(***************************************************************************)
\* return _random_state
Installed(generator) == [s |-> generator, v |-> generator, raised |-> "none"]

\* random_state(random_state=rs, force=force) with _random_state = installed
random_state_replacing(installed, rs, force) ==
  IF installed = None THEN Installed(IF rs = None THEN DefaultGenerator ELSE rs)
  ELSE IF rs # None THEN Installed(rs)
  ELSE Installed(installed)

random_state(installed, rs, force) ==
  IF installed = None THEN Installed(IF rs = None THEN DefaultGenerator ELSE rs)
  ELSE IF rs # None
    THEN IF force THEN Installed(rs)
         ELSE [s |-> installed, v |-> None, raised |-> "NumericError"]
  ELSE Installed(installed)

\* The generator beta(a, b, size, random_state=rs) draws from.
Source(installed, rs) ==
  IF rs = None THEN random_state(installed, None, FALSE).v ELSE rs

\* generator.beta(a, b, size): the next number of its stream.
Sample(generator, position) ==
  [kind |-> "sample", seed |-> generator.seed, index |-> position + 1]

\* The numbers one generator is asked for in a run.
MaxDrawn == 2

\* Everything but the randomness module.
NoCalculator ==
  /\ calc = None
  /\ fresh = None
  /\ xs = <<>>
  /\ op = "init"
  /\ raised = "none"
  /\ was_reset = FALSE
  /\ twin = Ok(None)
  /\ pending = <<>>
  /\ quantile = Num(1, 2)
  /\ since_auto_reset = <<>>

InitRandom == NoCalculator /\ Unused

calculators == <<calc, fresh, xs, was_reset, twin, pending, quantile, since_auto_reset>>

Returned(r) == _random_state' = r.s /\ returned' = r.v /\ raised' = r.raised

\* random_state(rs, force)
RandomStateCall ==
  /\ \E rs \in {None} \cup RandomStates, force \in BOOLEAN :
       /\ Returned(random_state(_random_state, rs, force))
       /\ args' = [random_state |-> rs, force |-> force]
  /\ op' = "random_state"
  /\ UNCHANGED <<calculators, drawn, timer>>

Drawn(generator) ==
  /\ drawn[generator.id] < MaxDrawn
  /\ drawn' = [drawn EXCEPT ![generator.id] = @ + 1]
  /\ returned' = Sample(generator, drawn[generator.id])

\* beta(a, b, size, random_state=rs)
BetaCall ==
  /\ \E rs \in {None} \cup RandomStates :
       /\ _random_state' = IF rs = None THEN random_state(_random_state, None, FALSE).s ELSE _random_state
       /\ Drawn(Source(_random_state, rs))
       /\ args' = [random_state |-> rs, force |-> FALSE]
  /\ raised' = "none"
  /\ op' = "beta"
  /\ UNCHANGED <<calculators, timer>>

NextRandom == RandomStateCall \/ BetaCall

SpecRandom == InitRandom /\ [][NextRandom]_vars

\* C24: once the process-wide random state is set, random_state(rs) with a
\* non-None rs and force=False raises NumericError and leaves the state as
\* it is, also when rs is the generator installed; random_state(rs,
\* force=True) replaces it by rs; random_state() returns the installed
\* generator and leaves it installed.
C24_Step ==
  (op' = "random_state" /\ _random_state # None)
    => /\ (args'.random_state # None /\ ~args'.force)
            => (raised' = "NumericError" /\ _random_state' = _random_state)
       /\ (args'.random_state # None /\ args'.force)
            => (raised' = "none" /\ _random_state' = args'.random_state)
       /\ (args'.random_state = None)
            => (raised' = "none" /\ returned' = _random_state /\ _random_state' = _random_state)
C24_SetOnceUnlessForced == [][C24_Step]_vars

\* random_state(rs) with the installed generator itself has raised.
C24_Witness ==
  /\ op = "random_state"
  /\ raised = "NumericError"
  /\ args.random_state = _random_state
  /\ ~args.force

(***************************************************************************)
(* The Timer of the timer module.  Clock readings are whole ticks.  A      *)
(* caught ValueError does not end the run.                                 *)
(***************************************************************************)
MaxTime == 3

Times == 0..MaxTime

\* Timer(): clock_0 is <<>> where the time module has no clock().
Timer(wall_time_0, clock_0) ==
  [kind |-> "Timer", wall_time_0 |-> wall_time_0, clock_0 |-> clock_0, time |-> 0, stopped |-> FALSE]

Timer_sampled(t, time) == [s |-> [t EXCEPT !.time = time], v |-> time, raised |-> "none"]

Timer_raise(t, exc) == [s |-> t, v |-> None, raised |-> exc]

\* t.sample() when time.time() reads now and time.clock() reads clock
Timer_sample_unchecked(t, now, clock) ==
  IF t.clock_0 # <<>> THEN Timer_sampled(t, t.wall_time_0 + (clock - t.clock_0[1]))
  ELSE Timer_sampled(t, now - t.wall_time_0)

Timer_sample(t, now, clock) ==
  IF t.stopped THEN Timer_raise(t, "ValueError")
  ELSE IF t.clock_0 # <<>> THEN Timer_sampled(t, t.wall_time_0 + (clock - t.clock_0[1]))
  ELSE Timer_sampled(t, now - t.wall_time_0)

Timer_stop(result) ==
  IF result.raised # "none" THEN result
  ELSE [result EXCEPT !.s.stopped = TRUE]

\* t.sample_and_stop()
Timer_sample_and_stop(t, now, clock) == Timer_stop(Timer_sample(t, now, clock))

\* t.__enter__()
Timer_enter(t) == [s |-> t, v |-> t, raised |-> "none"]

\* t.__exit__(exc_type, exc_val, exc_tb)
Timer_exit(t, now, clock) == [Timer_sample_and_stop(t, now, clock) EXCEPT !.v = None]

\* The properties stopped and time.
Timer_stopped(t) == t.stopped

Timer_time(t) == t.time

\* What time.clock() can read after the Timer was made.
Clocks(t) == IF t.clock_0 = <<>> THEN {0} ELSE {c \in Times : c >= t.clock_0[1]}

InitTimer ==
  /\ NoCalculator
  /\ _random_state = None
  /\ drawn = [id \in 0..MaxGenerators |-> 0]
  /\ args = None
  /\ returned = None
  /\ \E wall_time_0 \in Times, clock_0 \in {<<>>} \cup {<<c>> : c \in Times} :
       timer = Timer(wall_time_0, clock_0)

TimerReturned(r) == timer' = r.s /\ returned' = r.v /\ raised' = r.raised

SampleCall ==
  /\ \E now \in Times, clock \in Clocks(timer) : TimerReturned(Timer_sample(timer, now, clock))
  /\ op' = "sample"
  /\ UNCHANGED <<calculators, _random_state, drawn, args>>

SampleAndStopCall ==
  /\ \E now \in Times, clock \in Clocks(timer) : TimerReturned(Timer_sample_and_stop(timer, now, clock))
  /\ op' = "sample_and_stop"
  /\ UNCHANGED <<calculators, _random_state, drawn, args>>

EnterCall ==
  /\ TimerReturned(Timer_enter(timer))
  /\ op' = "__enter__"
  /\ UNCHANGED <<calculators, _random_state, drawn, args>>

ExitCall ==
  /\ \E now \in Times, clock \in Clocks(timer) : TimerReturned(Timer_exit(timer, now, clock))
  /\ op' = "__exit__"
  /\ UNCHANGED <<calculators, _random_state, drawn, args>>

NextTimer == SampleCall \/ SampleAndStopCall \/ EnterCall \/ ExitCall

SpecTimer == InitTimer /\ [][NextTimer]_vars

\* C25: a Timer is stopped exactly by sample_and_stop() or by leaving a with
\* block; once stopped it stays stopped, every later sample() or
\* sample_and_stop() raises ValueError, and the time property keeps the
\* value of the last successful sample.
C25_Step ==
  /\ (Timer_stopped(timer') # Timer_stopped(timer)) => op' \in {"sample_and_stop", "__exit__"}
  /\ (op' \in {"sample_and_stop", "__exit__"} /\ raised' = "none") => Timer_stopped(timer')
  /\ Timer_stopped(timer) => Timer_stopped(timer')
  /\ (Timer_stopped(timer) /\ op' \in {"sample", "sample_and_stop"})
       => (raised' = "ValueError" /\ Timer_time(timer') = Timer_time(timer))
  /\ (op' \in {"sample", "sample_and_stop"} /\ raised' = "none") => Timer_time(timer') = returned'
  /\ (op' = "__enter__" \/ raised' # "none") => Timer_time(timer') = Timer_time(timer)
C25_StoppedForGood == [][C25_Step]_vars

\* A stopped Timer that has refused a sample and still reports the last one.
C25_Witness ==
  /\ timer # None
  /\ Timer_stopped(timer)
  /\ op = "sample"
  /\ raised = "ValueError"
  /\ Timer_time(timer) # 0

(***************************************************************************)
(* The semi-variance.                                                      *)
(***************************************************************************)
\* The accumulator of a non-semi variance calculator fed ys.
FullAccumulator(ys) == Fed(VarianceIncrementalCalculator(One, FALSE), ys).statistic

\* x - mean for the mean the average calculator reports, 0 before the first
\* observation.
Delta(average, x) ==
  IF average.count = 0 THEN Zero
  ELSE Sub(x, AbstractCalculator_get_statistic(average).v)

\* C26: in semi mode append clamps delta2 = x - mean_after to
\* min(delta2, 0) before it multiplies by delta = x - mean_before, so only
\* observations below the running mean add to the accumulator; after any
\* sequence of finite observations the accumulator is non-negative and at
\* most the accumulator of a non-semi variance calculator fed the same
\* sequence.
C26_Step ==
  (calc.kind = "Variance" /\ calc.semi /\ raised' = "none" /\ calc'.count >= 1)
    => /\ IsFinite(calc'.statistic)
       /\ ~Lt0(calc'.statistic)
       /\ ~Lt0(Sub(FullAccumulator(xs'), calc'.statistic))
       /\ (op' = "append" /\ calc.count >= 1)
            => /\ calc'.statistic =
                    Add(calc.statistic,
                        Mul(Delta(calc.average_calculator, Appended),
                            Minimum0(Delta(calc'.average_calculator, Appended))))
               /\ ~Lt0(Delta(calc.average_calculator, Appended)) => calc'.statistic = calc.statistic
C26_SemiAddsOnlyBelowMean == [][C26_Step]_vars

\* A semi-variance that kept its accumulator through an observation above
\* the mean and is below the full accumulator.
C26_Witness ==
  /\ calc.kind = "Variance"
  /\ calc.semi
  /\ op = "append"
  /\ raised = "none"
  /\ calc.count >= 3
  /\ ~IsZero(calc.statistic)
  /\ Lt0(Sub(calc.statistic, FullAccumulator(xs)))

(***************************************************************************)
(* Sharing of inner estimators.  __getstate__ puts the inner estimator     *)
(* objects themselves into the snapshot and __setstate__ assigns them, so  *)
(* the object reconstructed from the snapshot that __reduce__ returns (as  *)
(* copy.copy reconstructs it) holds the inner estimators of the original.  *)
(* append and reset change an inner estimator where it is and never rebind *)
(* the attribute, so the reconstructed object sees under these attributes  *)
(* what the original holds there.                                          *)
(***************************************************************************)
CalculatorKeys ==
  {"ac", "average_calculator", "average_calculator1", "average_calculator2",
   "inner_average_calculator", "outer_average_calculator",
   "inner_standard_deviation_calculator", "variance_calculator", "calculator",
   "control_variate_calculator", "control_variate_mean_calculator",
   "control_variate_variance_calculator", "covariance_calculator"}

\* The reconstructed object, once the original has become what it is now.
SharedWith(reconstructed, original) ==
  [key \in DOMAIN reconstructed |->
     IF key \in CalculatorKeys \cap StateKeys(original) THEN original[key]
     ELSE reconstructed[key]]

NextShared == AppendCall \/ ResetCall \/ RestoreCall

SpecShared == Init /\ [][NextShared]_vars

\* C27: no two estimators share an inner estimator: appending to or
\* resetting an estimator never changes the count or the statistic that an
\* estimator reconstructed from its snapshot reports.
C27_NoSharedInner ==
  (twin.s # None /\ twin.raised = "none" /\ raised = "none")
    => /\ get_count(SharedWith(twin.s, calc)) = get_count(twin.s)
       /\ get_statistic(SharedWith(twin.s, calc)) = get_statistic(twin.s)

\* C28: a manual reset() of an auto-resetting calculator also clears the
\* record of the last auto-reset, so from then on the calculator resets its
\* target and reports as a newly constructed one fed the same observations,
\* however many observations and auto-resets came before the reset().
C28_ResetClearsHysteresis ==
  (calc.kind = "AutoResetting" /\ was_reset /\ raised = "none")
    => /\ calc.last_auto_reset_count = Fed(fresh, xs).last_auto_reset_count
       /\ get_statistic(calc) = get_statistic(Fed(fresh, xs))

\* Two calls ended the same way and left objects that report the same.
SameOutcome(a, b) ==
  /\ a.raised = b.raised
  /\ get_count(a.s) = get_count(b.s)
  /\ get_statistic(a.s) = get_statistic(b.s)

\* C29: an estimator reconstructed from a state snapshot behaves like the
\* original on a later append: the configuration and the bookkeeping that
\* future results depend on (the semi flag of the variance, the ddof of the
\* covariance, the threshold, the last auto-reset point and the pristine
\* detector clone of the auto-resetting calculator) survive the round trip.
C29_RestoredBehavesTheSame ==
  (op = "restore" /\ twin.raised = "none")
    => \A x \in Inputs(calc) : SameOutcome(append(twin.s, x), append(calc, x))

(***************************************************************************)
(* The counts of the inner estimators.                                     *)
(***************************************************************************)
\* The inner estimators the object s holds.
InnerCalculators(s) == {s[key] : key \in CalculatorKeys \cap DOMAIN s} \ {None}

\* Every inner estimator of s, and of those in turn, has the count of its
\* owner.
RECURSIVE InStep(_)
InStep(s) ==
  \A inner \in InnerCalculators(s) : get_count(inner) = get_count(s) /\ InStep(inner)

\* Built without a control_variate_calculator, as the default is.
DefaultInner(s) == s.kind = "ControlVariate" => s.control_variate_calculator = None

Composites ==
  {"Variance", "StandardDeviation", "Covariance", "CentralMoment",
   "StandardizedMoment", "AverageAbsoluteDeviation", "ControlVariate"}

\* C30: for the variance, standard-deviation, covariance, central-moment,
\* standardized-moment, average-absolute-deviation and control-variate
\* calculators built with default inner estimators, after any sequence of
\* append, extend and reset calls every owned inner estimator has the same
\* count as its owner.
C30_InnerCountsInStep ==
  (calc.kind \in Composites /\ DefaultInner(fresh)) => InStep(calc)


====
